---- MODULE Spec2Model ----
(***************************************************************************)
(* A model of the awesome-chatbot scripts:                                 *)
(*   torch_t2t/torch_t2t_train.py  the Transformer trainer (epoch loop,    *)
(*                                 batching, evaluate, attention mask)     *)
(*   stats/stats.py                the markdown score table updater        *)
(*   model/tens_2_tens_query_old.py the serving query client               *)
(* Every script is its own state machine over its own variables; a         *)
(* specification of one script leaves the other scripts' variables idle.   *)
(***************************************************************************)
EXTENDS Integers, Sequences, FiniteSets, TLC

(***************************************************************************)
(* Bounds of the model.                                                    *)
(***************************************************************************)
MaxEpochs == 3
MaxLoss == 3

(***************************************************************************)
(* Part 1.  The trainer's script level: torch_t2t_train.py lines 616-665.  *)
(***************************************************************************)
VARIABLES
    pc,             \* position of the script
    epochs,         \* args.epochs
    no_scheduler,   \* args.no_scheduler
    epoch,          \* the loop variable (0: the loop has not started)
    objParams,      \* heap: object -> version of its parameters
    best_model,     \* reference: "None" or the name of an object of the heap
    best_val_loss,
    val_loss,
    last_epoch,     \* scheduler.last_epoch: decay steps applied to the lr
    running,        \* calls of train()/evaluate() in progress
    calls,          \* history: the calls made so far, in order
    hist,           \* history: val_loss of every epoch so far
    snapshot,       \* history: parameter version at the end of every epoch
    evalParams      \* history: parameter version the final evaluate ran with

trainVars == <<pc, epochs, no_scheduler, epoch, objParams, best_model,
               best_val_loss, val_loss, last_epoch, running, calls, hist,
               snapshot, evalParams>>

\* float("inf"), larger than every loss
Inf == 1000
\* the values criterion(...) sums to: finite losses
Losses == 1..MaxLoss

\* best_model = model binds a second name to the same object
ModelRef == "model"

\* for epoch in range(1, epochs + 1): is there a next value
LoopContinuesShort(e) == e + 1 < epochs
LoopContinues(e) == e + 1 <= epochs

\* if not bool(args.no_scheduler)
SchedulerEnabledAlways == TRUE
SchedulerEnabled == ~no_scheduler

\* one call: the function, the dataset it is given, the epoch it is made in and
\* the decay steps the learning rate has had by then
Call(f, d) == [f |-> f, data |-> d, epoch |-> epoch, lr_steps |-> last_epoch]

TrainInit ==
    /\ pc = "loop"
    /\ epochs \in 0..MaxEpochs
    /\ no_scheduler \in BOOLEAN
    /\ epoch = 0
    /\ objParams = [o \in {ModelRef} |-> 0]
    /\ best_model = "None"
    /\ best_val_loss = Inf
    /\ val_loss = Inf
    /\ last_epoch = 0
    /\ running = 0
    /\ calls = <<>>
    /\ hist = <<>>
    /\ snapshot = <<>>
    /\ evalParams = -1

\* for epoch in range(1, epochs + 1)
LoopHead ==
    /\ pc = "loop"
    /\ IF LoopContinues(epoch)
         THEN epoch' = epoch + 1 /\ pc' = "train"
         ELSE epoch' = epoch /\ pc' = "final"
    /\ UNCHANGED <<epochs, no_scheduler, objParams, best_model,
                   best_val_loss, val_loss, last_epoch, running, calls, hist,
                   snapshot, evalParams>>

\* train() is entered
TrainCall ==
    /\ pc = "train"
    /\ pc' = "in_train"
    /\ running' = running + 1
    /\ calls' = Append(calls, Call("train", "train"))
    /\ UNCHANGED <<epochs, no_scheduler, epoch, objParams, best_model,
                   best_val_loss, val_loss, last_epoch, hist, snapshot,
                   evalParams>>

\* train() returns: optimizer.step() has changed the parameters of model in
\* place
TrainReturn ==
    /\ pc = "in_train"
    /\ objParams' = [objParams EXCEPT ![ModelRef] = @ + 1]
    /\ running' = running - 1
    /\ pc' = "eval_val"
    /\ UNCHANGED <<epochs, no_scheduler, epoch, best_model, best_val_loss,
                   val_loss, last_epoch, calls, hist, snapshot, evalParams>>

\* evaluate(model, babi_val_txt, ...) is entered
EvalValCall ==
    /\ pc = "eval_val"
    /\ pc' = "in_eval_val"
    /\ running' = running + 1
    /\ calls' = Append(calls, Call("evaluate", "val"))
    /\ UNCHANGED <<epochs, no_scheduler, epoch, objParams, best_model,
                   best_val_loss, val_loss, last_epoch, hist, snapshot,
                   evalParams>>

\* val_loss, acc_val = evaluate(...)
EvalValReturn ==
    /\ pc = "in_eval_val"
    /\ \E l \in Losses : val_loss' = l /\ hist' = Append(hist, l)
    /\ snapshot' = Append(snapshot, objParams[ModelRef])
    /\ running' = running - 1
    /\ pc' = "update_best"
    /\ UNCHANGED <<epochs, no_scheduler, epoch, objParams, best_model,
                   best_val_loss, last_epoch, calls, evalParams>>

\* if val_loss < best_val_loss: best_val_loss = val_loss; best_model = model
UpdateBest ==
    /\ pc = "update_best"
    /\ IF val_loss < best_val_loss
         THEN best_val_loss' = val_loss /\ best_model' = ModelRef
         ELSE UNCHANGED <<best_val_loss, best_model>>
    /\ pc' = "eval_test"
    /\ UNCHANGED <<epochs, no_scheduler, epoch, objParams, val_loss,
                   last_epoch, running, calls, hist, snapshot, evalParams>>

\* evaluate(model, babi_test_txt, ...) is entered
EvalTestCall ==
    /\ pc = "eval_test"
    /\ pc' = "in_eval_test"
    /\ running' = running + 1
    /\ calls' = Append(calls, Call("evaluate", "test"))
    /\ UNCHANGED <<epochs, no_scheduler, epoch, objParams, best_model,
                   best_val_loss, val_loss, last_epoch, hist, snapshot,
                   evalParams>>

\* _, acc_tst = evaluate(...): the loss is dropped
EvalTestReturn ==
    /\ pc = "in_eval_test"
    /\ running' = running - 1
    /\ pc' = "sched"
    /\ UNCHANGED <<epochs, no_scheduler, epoch, objParams, best_model,
                   best_val_loss, val_loss, last_epoch, calls, hist, snapshot,
                   evalParams>>

\* if not bool(args.no_scheduler): scheduler.step()
SchedulerStep ==
    /\ pc = "sched"
    /\ IF SchedulerEnabled
         THEN /\ last_epoch' = last_epoch + 1
              /\ calls' = Append(calls, Call("step", "none"))
         ELSE UNCHANGED <<last_epoch, calls>>
    /\ pc' = "loop"
    /\ UNCHANGED <<epochs, no_scheduler, epoch, objParams, best_model,
                   best_val_loss, val_loss, running, hist, snapshot,
                   evalParams>>

\* evaluate(best_model, babi_test_txt, ...) is entered
FinalEvalCall ==
    /\ pc = "final"
    /\ pc' = "in_final"
    /\ running' = running + 1
    /\ calls' = Append(calls, Call("evaluate", "test"))
    /\ UNCHANGED <<epochs, no_scheduler, epoch, objParams, best_model,
                   best_val_loss, val_loss, last_epoch, hist, snapshot,
                   evalParams>>

\* eval_model.eval() raises AttributeError on None; otherwise the evaluation
\* reads the parameters of the object best_model refers to
FinalEvalReturn ==
    /\ pc = "in_final"
    /\ running' = running - 1
    /\ IF best_model = "None"
         THEN pc' = "error" /\ evalParams' = evalParams
         ELSE pc' = "done" /\ evalParams' = objParams[best_model]
    /\ UNCHANGED <<epochs, no_scheduler, epoch, objParams, best_model,
                   best_val_loss, val_loss, last_epoch, calls, hist, snapshot>>

(***************************************************************************)
(* Part 2.  Batching: batchify_babi (lines 210-297) and batchify (lines    *)
(* 300-308).  A tensor of shape (R, C) is a sequence of R rows, each a     *)
(* sequence of C numbers.                                                  *)
(***************************************************************************)
VARIABLES
    b_pc,           \* "start", "done" or "error" (the call raised)
    b_fn,           \* the function that is applied
    data,           \* batchify_babi: data.examples, mutated in place
    data0,          \* history: data.examples as they were passed in
    size_src,       \* batchify_babi: the size_src argument
    new_n_data,     \* batchify_babi: the source tensor returned
    target_n_data,  \* batchify_babi: the target tensor returned
    m,              \* batchify_babi: the width returned
    text,           \* batchify: data.examples[0].text
    bsz,            \* batchify: the batch size
    batched         \* batchify: the tensor returned

batchVars == <<b_pc, b_fn, data, data0, size_src, new_n_data, target_n_data,
               m, text, bsz, batched>>

\* TEXT.vocab.itos: the specials of the Field, then the words of the training
\* set; a word of the validation or test set may be missing from it
Itos == <<"<unk>", "<pad>", "<sos>", "<eos>", ".", "?", "mary", "hall">>

\* TEXT.vocab.stoi: a defaultdict, 0 (<unk>) for a token it does not hold
Stoi(w) ==
    IF \E k \in 1..Len(Itos) : Itos[k] = w
      THEN (CHOOSE k \in 1..Len(Itos) : Itos[k] = w) - 1
      ELSE 0

\* TEXT.numericalize([tokens]), as the row of numbers both callers make of it
Numericalize(tokens) == [k \in 1..Len(tokens) |-> Stoi(tokens[k])]

RECURSIVE MaxOf(_)
MaxOf(S) ==
    LET x == CHOOSE y \in S : TRUE
    IN  IF S = {x} THEN x
        ELSE LET r == MaxOf(S \ {x}) IN IF x > r THEN x ELSE r

\* z.story.insert(0, '<sos>'); z.story.extend(z.query); z.story.extend(['<eos>'])
SourceTokensNoQuery(z) == <<"<sos>">> \o z.story \o <<"<eos>">>
SourceTokens(z) == <<"<sos>">> \o z.story \o z.query \o <<"<eos>">>

\* target_data_tmp.extend(z.answer); target_data_tmp.append('<eos>')
TargetTokens(z) == z.answer \o <<"<eos>">>

\* m = max([len(x) for x in new_data]); m = max(m, size_src)
BabiWidth(nd, ss) == MaxOf({MaxOf({Len(nd[j]) : j \in 1..Len(nd)}), ss})

\* p = torch.zeros(1, w); p[0, :len(z[0])] = z  (raises when z is longer than w)
PadRow(z, w) == [k \in 1..w |-> IF k <= Len(z) THEN z[k] ELSE 0]

\* tensor.t() of a tensor with R rows and C columns
Transpose(M, R, C) == [c \in 1..C |-> [r \in 1..R |-> M[r][c]]]

\* the examples the dataset loader yields after find_and_parse_story: a story
\* that ends with '.', a query that ends with '?', a short answer
Stories == { <<"mary", ".">>, <<"mary", "hall", ".", "garden", ".">> }
Queries == { <<"?">>, <<"mary", "?">> }
Answers == { <<"hall">>, <<"garden">>, <<"hall", "mary">> }
Examples == [story : Stories, query : Queries, answer : Answers]

MaxExamples == 2
MaxText == 4

RECURSIVE SeqsUpTo(_, _)
SeqsUpTo(S, n) ==
    IF n = 0 THEN {<<>>}
    ELSE LET shorter == SeqsUpTo(S, n - 1)
         IN  shorter \cup {Append(q, x) : q \in shorter, x \in S}

BatchIdle ==
    /\ b_pc = "idle"
    /\ b_fn = "none"
    /\ data = <<>>
    /\ data0 = <<>>
    /\ size_src = -1
    /\ new_n_data = <<>>
    /\ target_n_data = <<>>
    /\ m = 0
    /\ text = <<>>
    /\ bsz = 1
    /\ batched = <<>>

BatchInit ==
    /\ b_pc = "start"
    /\ new_n_data = <<>>
    /\ target_n_data = <<>>
    /\ m = 0
    /\ batched = <<>>
    /\ \/ /\ b_fn = "batchify_babi"
          /\ data \in SeqsUpTo(Examples, MaxExamples) \ {<<>>}
          /\ data0 = data
          /\ size_src \in {-1, 7, 12}
          /\ text = <<>>
          /\ bsz = 1
       \/ /\ b_fn = "batchify"
          /\ text \in SeqsUpTo({"mary", "hall", "garden"}, MaxText)
          /\ bsz \in 1..3
          /\ data = <<>>
          /\ data0 = <<>>
          /\ size_src = -1

\* batchify_babi(data, bsz, separate_ques=True, size_src=size_src)
BatchifyBabi ==
    /\ b_pc = "start"
    /\ b_fn = "batchify_babi"
    /\ LET N == Len(data)
           new_data == [j \in 1..N |-> SourceTokens(data[j])]
           target_data == [j \in 1..N |-> TargetTokens(data[j])]
           w == BabiWidth(new_data, size_src)
           fits == \A j \in 1..N : Len(target_data[j]) <= w
       IN  /\ data' = [j \in 1..N |-> [data[j] EXCEPT !.story = new_data[j]]]
           /\ IF fits
                THEN /\ new_n_data' =
                          Transpose([j \in 1..N |->
                                        PadRow(Numericalize(new_data[j]), w)],
                                    N, w)
                     /\ target_n_data' =
                          Transpose([j \in 1..N |->
                                        PadRow(Numericalize(target_data[j]), w)],
                                    N, w)
                     /\ m' = w
                     /\ b_pc' = "done"
                ELSE /\ b_pc' = "error"
                     /\ UNCHANGED <<new_n_data, target_n_data, m>>
    /\ UNCHANGED <<b_fn, data0, size_src, text, bsz, batched>>

\* data.view(bsz, -1) of nbatch * bsz numbers; no shape fits -1 when there are
\* no numbers at all, and view raises
ViewOk(nbatch) == nbatch > 0

\* data.narrow(0, 0, nbatch * bsz).view(bsz, -1).t()
ColumnsInterleaved(d, nbatch, b) ==
    [r \in 1..nbatch |-> [c \in 1..b |-> d[(r - 1) * b + c]]]
Columns(d, nbatch, b) ==
    [r \in 1..nbatch |-> [c \in 1..b |-> d[(c - 1) * nbatch + r]]]

\* batchify(data, bsz)
Batchify ==
    /\ b_pc = "start"
    /\ b_fn = "batchify"
    /\ LET d == Numericalize(text)
           nbatch == Len(d) \div bsz
       IN  IF ViewOk(nbatch)
             THEN batched' = Columns(d, nbatch, bsz) /\ b_pc' = "done"
             ELSE batched' = batched /\ b_pc' = "error"
    /\ UNCHANGED <<b_fn, data, data0, size_src, new_n_data, target_n_data, m,
                   text, bsz>>

(***************************************************************************)
(* Part 3.  evaluate(eval_model, data_source, data_tgt, m_data=1,          *)
(* show_accuracy) (lines 542-611), one call.  The model's output is not    *)
(* computed here: every predicted token is any token of the vocabulary.    *)
(***************************************************************************)
VARIABLES
    e_pc,           \* "for_i", "for_ii", "ret", "done" or "error" (it raised)
    src_rows,       \* data_source.size(0): the padded sequence width
    src_cols,       \* data_source.size(1): the number of examples
    data_tgt,       \* the target tensor, src_rows rows and src_cols columns
    show_accuracy,
    i,              \* the outer loop variable (-1: the loop has not started)
    ii,             \* the inner loop variable
    acc,
    acc_count,
    acc_tot,        \* the accuracy returned: 0 or a fraction num / den
    saved_dim,
    fed,            \* history: column -> times it was passed to eval_model
    genTotal,       \* history: sum over the examples of the length of the
                    \* leading run of predicted tokens before the first 0
    matchTotal      \* history: generated tokens equal to the example's target

evalVars == <<e_pc, src_rows, src_cols, data_tgt, show_accuracy, i, ii, acc,
              acc_count, acc_tot, saved_dim, fed, genTotal, matchTotal>>

MaxCols == 9

\* for ii in range(0, 10)
GenLimit == 10

\* ntokens = len(TEXT.vocab.stoi): what argmax over the last dimension yields
PredTokens == 0..(Len(Itos) - 1)

\* acc / acc_count * 100.0, kept as a fraction
Fraction(a, b) == [num |-> a, den |-> b]

\* a target tensor of w rows as batchify_babi builds it from the answers
TargetTensor(answers, w) ==
    Transpose([c \in 1..Len(answers) |->
                  PadRow(Numericalize(answers[c] \o <<"<eos>">>), w)],
              Len(answers), w)

\* range(0, data_source_size, bptt) with data_source_size = data_source.size(0) - 1
\* and bptt = m_data = 1: is k a value of the range
InRange(k) == k < src_rows - 1

\* targets_text[index_i, ii] with index_i = 0: row 0 of the transposed batch
\* target[:, i:i+1], which is column i of data_tgt (all indices from 0)
ScoreTargetFirstColumn(col, row) == data_tgt[row + 1][1]
ScoreTarget(col, row) == data_tgt[row + 1][col + 1]

EvalIdle ==
    /\ e_pc = "idle"
    /\ src_rows = 0
    /\ src_cols = 0
    /\ data_tgt = <<>>
    /\ show_accuracy = FALSE
    /\ i = -1
    /\ ii = 0
    /\ acc = 0
    /\ acc_count = 0
    /\ acc_tot = 0
    /\ saved_dim = -1
    /\ fed = <<>>
    /\ genTotal = 0
    /\ matchTotal = 0

EvalInit ==
    /\ e_pc = "for_i"
    /\ src_rows \in {2, 3, GenLimit}
    /\ src_cols \in 1..MaxCols
    /\ \E other \in {<<"hall">>, <<"mary">>} :
          data_tgt = TargetTensor([c \in 1..src_cols |->
                                     IF c % 2 = 1 THEN <<"hall">> ELSE other],
                                  src_rows)
    /\ show_accuracy \in BOOLEAN
    /\ i = -1
    /\ ii = 0
    /\ acc = 0
    /\ acc_count = 0
    /\ acc_tot = 0
    /\ saved_dim = -1
    /\ fed = [c \in 0..(src_cols - 1) |-> 0]
    /\ genTotal = 0
    /\ matchTotal = 0

\* for i in range(...): get_batch_babi slices column i; eval_model(data); a
\* slice past the last column is empty, and argmax(...)[0] of the empty output
\* raises IndexError
EvalNextExample ==
    /\ e_pc = "for_i"
    /\ InRange(i + 1)
    /\ i' = i + 1
    /\ IF i + 1 < src_cols
         THEN /\ fed' = [fed EXCEPT ![i + 1] = @ + 1]
              /\ IF saved_dim = -1 \/ saved_dim = src_rows
                   THEN saved_dim' = src_rows /\ ii' = 0 /\ e_pc' = "for_ii"
                   ELSE UNCHANGED <<saved_dim, ii, e_pc>>
         ELSE /\ e_pc' = "error"
              /\ UNCHANGED <<fed, saved_dim, ii>>
    /\ UNCHANGED <<src_rows, src_cols, data_tgt, show_accuracy, acc, acc_count,
                   acc_tot, genTotal, matchTotal>>

\* the range of i is exhausted
EvalLoopEnd ==
    /\ e_pc = "for_i"
    /\ ~InRange(i + 1)
    /\ e_pc' = "ret"
    /\ UNCHANGED <<src_rows, src_cols, data_tgt, show_accuracy, i, ii, acc,
                   acc_count, acc_tot, saved_dim, fed, genTotal, matchTotal>>

\* one pass of for ii in range(0, 10): text = argmax(...)[ii]; a text of 0
\* breaks, another counts, and scores when it equals the target
GenToken ==
    /\ e_pc = "for_ii"
    /\ ii < GenLimit
    /\ ii < src_rows
    /\ \E txt \in PredTokens :
          IF txt # 0
            THEN /\ acc_count' = acc_count + 1
                 /\ acc' = IF txt = ScoreTarget(i, ii) /\ txt # 0
                             THEN acc + 1 ELSE acc
                 /\ matchTotal' = IF txt = data_tgt[ii + 1][i + 1]
                                    THEN matchTotal + 1 ELSE matchTotal
                 /\ ii' = ii + 1
                 /\ UNCHANGED <<e_pc, genTotal>>
            ELSE /\ e_pc' = "for_i"
                 /\ genTotal' = genTotal + ii
                 /\ UNCHANGED <<acc_count, acc, matchTotal, ii>>
    /\ UNCHANGED <<src_rows, src_cols, data_tgt, show_accuracy, i, acc_tot,
                   saved_dim, fed>>

\* the range of ii is exhausted: ten tokens were generated
GenExhausted ==
    /\ e_pc = "for_ii"
    /\ ii >= GenLimit
    /\ e_pc' = "for_i"
    /\ genTotal' = genTotal + ii
    /\ UNCHANGED <<src_rows, src_cols, data_tgt, show_accuracy, i, ii, acc,
                   acc_count, acc_tot, saved_dim, fed, matchTotal>>

\* argmax(...)[ii] past the last row of the output raises IndexError
GenIndexError ==
    /\ e_pc = "for_ii"
    /\ ii < GenLimit
    /\ ii >= src_rows
    /\ e_pc' = "error"
    /\ UNCHANGED <<src_rows, src_cols, data_tgt, show_accuracy, i, ii, acc,
                   acc_count, acc_tot, saved_dim, fed, genTotal, matchTotal>>

\* if show_accuracy: acc_tot = acc / acc_count * 100.0 if acc_count > 0 else 0.0
EvalReturn ==
    /\ e_pc = "ret"
    /\ acc_tot' = IF show_accuracy
                    THEN IF acc_count > 0
                           THEN Fraction(acc * 100, acc_count)
                           ELSE Fraction(0, 1)
                    ELSE acc_tot
    /\ e_pc' = "done"
    /\ UNCHANGED <<src_rows, src_cols, data_tgt, show_accuracy, i, ii, acc,
                   acc_count, saved_dim, fed, genTotal, matchTotal>>

(***************************************************************************)
(* Part 4.  The stats updater: stats/stats.py, run as a script once or     *)
(* several times over the same directory.                                  *)
(* A file is a sequence of lines; a line is the sequence of the pieces     *)
(* between its '|', each kept without the blanks around it (read_stats     *)
(* strips every piece before it looks at it).                              *)
(***************************************************************************)
VARIABLES
    s_pc,           \* "new", "read", "update", "write", "print", "done", "error"
    run,            \* which run of the script this is
    hparams,        \* model.settings.hparams, the dictionary shared by the scripts
    fs,             \* the files of save_dir: name -> lines
    filename,
    heading,
    body,
    score,
    test,
    column_name,
    skip_new_score,
    table_out,
    recorded        \* history: what the last finished run recorded

statsVars == <<s_pc, run, hparams, fs, filename, heading, body, score, test,
               column_name, skip_new_score, table_out, recorded>>

MaxRuns == 2

\* self.num_of_tests = 20
num_of_tests == 20

\* model/settings.py as written (the keys, and the values of the two paths)
Settings ==
    [k \in {"save_dir", "data_dir", "embed_name", "vocab_name", "test_name",
            "test_size", "train_name", "src_ending", "tgt_ending",
            "base_filename", "base_file_num", "num_vocab_total", "batch_size",
            "steps_to_stats", "epochs", "embed_size", "embed_train",
            "autoencode", "infer_repeat", "embed_mode", "dense_activation",
            "sol", "eol", "unk", "units", "learning_rate",
            "tokens_per_sentence", "batch_constant"} |->
        IF k = "save_dir" THEN "../saved/"
        ELSE IF k = "data_dir" THEN "../data/"
        ELSE "other"]

\* the dictionary is a module-level object: a script that imports it can add a
\* key before Stats() is constructed
SettingsWith(k, v) ==
    [x \in DOMAIN Settings \cup {k} |-> IF x = k THEN v ELSE Settings[x]]

\* str.strip() of a cell: a cell of blanks only becomes empty
Strip(c) == IF c \in {"", " "} THEN "" ELSE c

\* ' | ' + ' | '.join(cells) + ' | ' + '\n', split at '|'
FormatRow(cells) == <<"">> \o [k \in 1..Len(cells) |-> Strip(cells[k])] \o <<"">>

\* '|' + '-|' * n + ' \n', split at '|'
Divider(n) == <<"">> \o [k \in 1..n |-> "-"] \o <<"">>

\* the loop over the pieces of a line in read_stats: a piece that is not empty
\* is kept, an empty one becomes fill unless it is the first or the last
RECURSIVE ParseFrom(_, _, _)
ParseFrom(line, l, fill) ==
    IF l > Len(line) THEN <<>>
    ELSE LET rest == ParseFrom(line, l + 1, fill)
         IN  IF line[l] # "" THEN <<line[l]>> \o rest
             ELSE IF l # 1 /\ l # Len(line) THEN <<fill>> \o rest
             ELSE rest
ParseLine(line, fill) == ParseFrom(line, 1, fill)

\* the lines write_stats writes for a table
TableLines(table) ==
    IF table = <<>> THEN <<>>
    ELSE <<FormatRow(table[1]), Divider(Len(table[1]))>>
         \o [k \in 1..(Len(table) - 1) |-> FormatRow(table[k + 1])]

Range(q) == {q[k] : k \in 1..Len(q)}

\* the file write_stats opens
WriteTarget(f) == f \o ".txt.md"

\* the table update_stats builds from heading and body for one score
UpdatedHeading(h, c) ==
    <<" ">> \o (IF c \in Range(h) THEN h ELSE Append(h, c))

UpdatedRowNoFill(h2, b, j, c, t, sc) ==
    <<ToString(j)>> \o (IF j - 1 < Len(b) THEN b[j] ELSE <<>>)
UpdatedRow(h2, b, j, c, t, sc) ==
    <<ToString(j)>> \o
    [k \in 1..(Len(h2) - 1) |->
        IF Strip(h2[k + 1]) = Strip(c) /\ ToString(j) = ToString(t)
          THEN ToString(sc)
          ELSE IF j - 1 < Len(b) /\ k - 1 < Len(b[j])
                 THEN b[j][k]
                 ELSE "0"]

UpdatedTable(h, b, c, t, sc) ==
    LET h2 == UpdatedHeading(h, c)
    IN  <<h2>> \o [j \in 1..num_of_tests |-> UpdatedRow(h2, b, j, c, t, sc)]

\* what get_score takes from the babi test it runs
ColumnNames == {"babi", "t2t"}
Tests == {1, 20}
Scores == {40, 80}

\* a table file as an earlier version of the script or an editor left it: a
\* heading, a divider, two rows of which one has an empty cell and one is short
OldFile ==
    << <<"", "babi", "">>,
       <<"", "-", "">>,
       <<"", "40", "">>,
       <<"", "", "7", "">>,
       <<"">> >>

StatsIdle ==
    /\ s_pc = "idle"
    /\ run = 0
    /\ hparams = Settings
    /\ fs = <<>>
    /\ filename = ""
    /\ heading = <<>>
    /\ body = <<>>
    /\ score = 0
    /\ test = 0
    /\ column_name = ""
    /\ skip_new_score = FALSE
    /\ table_out = <<>>
    /\ recorded = <<>>

StatsInit ==
    /\ s_pc = "new"
    /\ run = 1
    /\ hparams \in {Settings, SettingsWith("stats_filename", "stats")}
    /\ fs \in { <<>>,
                [n \in {"../saved/stats.md"} |-> OldFile],
                [n \in {"../saved/stats.md"} |->
                    TableLines(UpdatedTable(<<>>, <<>>, "babi", 5, 555))] }
    /\ filename = ""
    /\ heading = <<>>
    /\ body = <<>>
    /\ score = 0
    /\ test = 0
    /\ column_name = ""
    /\ skip_new_score = FALSE
    /\ table_out = <<>>
    /\ recorded = <<>>

\* Stats(): hparams['save_dir'] + hparams['stats_filename'] + '.md' raises
\* KeyError for a key the dictionary lacks
StatsConstruct ==
    /\ s_pc = "new"
    /\ IF {"save_dir", "stats_filename"} \subseteq DOMAIN hparams
         THEN /\ filename' = hparams["save_dir"] \o hparams["stats_filename"] \o ".md"
              /\ heading' = <<>>
              /\ body' = <<>>
              /\ score' = 555
              /\ test' = 5
              /\ column_name' = "babi"
              /\ skip_new_score' = FALSE
              /\ table_out' = <<>>
              /\ s_pc' = "read"
         ELSE /\ s_pc' = "error"
              /\ UNCHANGED <<filename, heading, body, score, test, column_name,
                             skip_new_score, table_out>>
    /\ UNCHANGED <<run, hparams, fs, recorded>>

\* a caller sets s.skip_new_score = True before it updates
SetSkipNewScore ==
    /\ s_pc = "read"
    /\ ~skip_new_score
    /\ skip_new_score' = TRUE
    /\ UNCHANGED <<s_pc, run, hparams, fs, filename, heading, body, score, test,
                   column_name, table_out, recorded>>

\* read_stats: the first line is the heading, the second is consumed as the
\* divider, every other line is a row of the body
ReadStats ==
    /\ s_pc = "read"
    /\ IF filename \in DOMAIN fs
         THEN LET zz == fs[filename]
              IN  /\ heading' = IF Len(zz) >= 1
                                  THEN heading \o ParseLine(zz[1], "blank")
                                  ELSE heading
                  /\ body' = body \o [k \in 1..(Len(zz) - 2) |->
                                         ParseLine(zz[k + 2], "0")]
         ELSE UNCHANGED <<heading, body>>
    /\ s_pc' = "update"
    /\ UNCHANGED <<run, hparams, fs, filename, score, test, column_name,
                   skip_new_score, table_out, recorded>>

\* update_stats: get_score unless skip_new_score, then the table
UpdateStats ==
    /\ s_pc = "update"
    /\ \E c \in ColumnNames, t \in Tests, sc \in Scores :
          /\ IF skip_new_score
               THEN UNCHANGED <<column_name, test, score>>
               ELSE column_name' = c /\ test' = t /\ score' = sc
          /\ heading' = UpdatedHeading(heading, column_name')
          /\ table_out' = UpdatedTable(heading, body, column_name', test', score')
    /\ s_pc' = "write"
    /\ UNCHANGED <<run, hparams, fs, filename, body, skip_new_score, recorded>>

\* write_stats
WriteStats ==
    /\ s_pc = "write"
    /\ LET name == WriteTarget(filename)
       IN  fs' = [n \in DOMAIN fs \cup {name} |->
                     IF n = name THEN TableLines(table_out) ELSE fs[n]]
    /\ recorded' = [score |-> ToString(score), test |-> test,
                    column |-> column_name]
    /\ s_pc' = "print"
    /\ UNCHANGED <<run, hparams, filename, heading, body, score, test,
                   column_name, skip_new_score, table_out>>

\* print_stats
PrintStats ==
    /\ s_pc = "print"
    /\ s_pc' = "done"
    /\ UNCHANGED <<run, hparams, fs, filename, heading, body, score, test,
                   column_name, skip_new_score, table_out, recorded>>

\* the script is started again
NextRun ==
    /\ s_pc = "done"
    /\ run < MaxRuns
    /\ run' = run + 1
    /\ s_pc' = "new"
    /\ UNCHANGED <<hparams, fs, filename, heading, body, score, test,
                   column_name, skip_new_score, table_out, recorded>>

(***************************************************************************)
(* Part 5.  TransformerModel.forward and its cached attention mask (lines  *)
(* 59-97).  A mask is kept as its rows; None is a value of its own.        *)
(***************************************************************************)
VARIABLES
    src_mask,       \* self.src_mask
    mask_passed,    \* the mask the last forward handed to transformer_encoder
    prev_mask,      \* history: self.src_mask when the last forward began
    regenerated,    \* history: the last forward made a new mask
    lens            \* history: len(src) of every forward so far

maskVars == <<src_mask, mask_passed, prev_mask, regenerated, lens>>

MaxLen == 4
MaxForward == 4

NoneMask == [isNone |-> TRUE, rows |-> <<>>]
Tensor(rows) == [isNone |-> FALSE, rows |-> rows]

\* torch.triu(torch.ones(sz, sz)) == 1
Triu(sz) == [r \in 1..sz |-> [c \in 1..sz |-> c >= r]]

\* _generate_square_subsequent_mask(sz): the transposed triangle, -inf where
\* it is 0 and 0.0 where it is 1
GenerateMask(sz) ==
    LET t == Triu(sz)
        mask == [r \in 1..sz |-> [c \in 1..sz |-> t[c][r]]]
    IN  [r \in 1..sz |-> [c \in 1..sz |-> IF mask[r][c] THEN "0.0" ELSE "-inf"]]

\* self.src_mask is None or self.src_mask.size(0) != len(src)
NeedsNewMaskOnlyNone(mask, n) == mask.isNone
NeedsNewMask(mask, n) == mask.isNone \/ Len(mask.rows) # n

MaskIdle ==
    /\ src_mask = NoneMask
    /\ mask_passed = NoneMask
    /\ prev_mask = NoneMask
    /\ regenerated = FALSE
    /\ lens = <<>>

\* TransformerModel.__init__: self.src_mask = None
MaskInit == MaskIdle

\* forward(src) with len(src) = n
Forward ==
    /\ Len(lens) < MaxForward
    /\ \E n \in 1..MaxLen :
          /\ lens' = Append(lens, n)
          /\ prev_mask' = src_mask
          /\ regenerated' = NeedsNewMask(src_mask, n)
          /\ src_mask' = IF NeedsNewMask(src_mask, n)
                           THEN Tensor(GenerateMask(n))
                           ELSE src_mask
          /\ mask_passed' = src_mask'

(***************************************************************************)
(* Part 6.  The serving query client: model/tens_2_tens_query_old.py.      *)
(* Every method of Request is a lazy_property: reading the attribute runs  *)
(* the function once and caches what it returns.                           *)
(***************************************************************************)
VARIABLES
    r_pc,           \* "new", "init", "main", "validated", "raised"
    FLAGS,          \* the flag values
    request_fn,
    problem,
    cached,         \* the _cache_ attributes the object has
    validate_result,\* history: "none", "ok" or "AssertionError"
    exc             \* the exception that ended the construction, or "none"

requestVars == <<r_pc, FLAGS, request_fn, problem, cached, validate_result, exc>>

\* None, as a flag value and as an attribute value
None == "<None>"

\* the truth value of a flag: None and the empty string are false
Truthy(v) == v \notin {None, ""}

\* the branch validate_flags takes: FLAGS.cloud_mlengine_model_name and False
CloudBranch == Truthy(FLAGS.cloud_mlengine_model_name) /\ FALSE

\* the assertions of validate_flags all hold
ValidateAsserts ==
    IF CloudBranch
      THEN ~Truthy(FLAGS.server) /\ ~Truthy(FLAGS.servable_name)
      ELSE Truthy(FLAGS.server) /\ Truthy(FLAGS.servable_name)

RequestIdle ==
    /\ r_pc = "idle"
    /\ FLAGS = [server |-> "localhost:9001",
                servable_name |-> "chat_line_problem",
                cloud_mlengine_model_name |-> None,
                cloud_mlengine_model_version |-> None,
                inputs_once |-> None]
    /\ request_fn = None
    /\ problem = None
    /\ cached = {}
    /\ validate_result = "none"
    /\ exc = "none"

\* the flags as defined (lines 41-55), each at its default or set on the
\* command line, possibly to the empty string
RequestInit ==
    /\ r_pc = "new"
    /\ FLAGS \in [server : {"localhost:9001", ""},
                  servable_name : {"chat_line_problem", ""},
                  cloud_mlengine_model_name : {None, "", "my_model"},
                  cloud_mlengine_model_version : {None, "v1"},
                  inputs_once : {None, "hello"}]
    /\ request_fn = None
    /\ problem = None
    /\ cached = {}
    /\ validate_result = "none"
    /\ exc = "none"

\* Request.__init__ up to self.main
RequestNew ==
    /\ r_pc = "new"
    /\ request_fn' = None
    /\ problem' = None
    /\ r_pc' = "init"
    /\ UNCHANGED <<FLAGS, cached, validate_result, exc>>

\* self.main: the attribute is read, nothing is cached yet, the body starts
MainEnter ==
    /\ r_pc = "init"
    /\ "_cache_main" \notin cached
    /\ r_pc' = "main"
    /\ UNCHANGED <<FLAGS, request_fn, problem, cached, validate_result, exc>>

\* self.validate_flags inside main: the body runs; a failed assert raises
\* AssertionError out of main and __init__, else None is cached
ValidateFlags ==
    /\ r_pc = "main"
    /\ IF ValidateAsserts
         THEN /\ validate_result' = "ok"
              /\ cached' = cached \cup {"_cache_validate_flags"}
              /\ r_pc' = "validated"
              /\ exc' = exc
         ELSE /\ validate_result' = "AssertionError"
              /\ cached' = cached
              /\ r_pc' = "raised"
              /\ exc' = "AssertionError"
    /\ UNCHANGED <<FLAGS, request_fn, problem>>

\* self.validate_flags(): the value of the attribute is None, and calling it
\* raises TypeError out of main and __init__
ValidateFlagsCall ==
    /\ r_pc = "validated"
    /\ r_pc' = "raised"
    /\ exc' = "TypeError"
    /\ UNCHANGED <<FLAGS, request_fn, problem, cached, validate_result>>

(***************************************************************************)
(* Part 7.  What one epoch of train() changes: the tensors the model holds *)
(* (lines 59-73 and 108-126), the optimizer built over model.parameters()  *)
(* (line 481) and the loop body of train (lines 494-526).                  *)
(* A tensor is its initial value and the sum of the updates made to it, in *)
(* units of the learning rate; a gradient is kept by its sign.             *)
(***************************************************************************)
VARIABLES
    o_pc,           \* "head", "forward", "backward", "clip", "step", "done"
    n_batches,      \* babi_train_txt.size(1) - 1
    batch,
    tensors,        \* name -> [init, delta]: the state_dict of the model
    grad,           \* name -> the .grad of a parameter, None before backward
    tensors0        \* history: tensors when train() was called

optimVars == <<o_pc, n_batches, batch, tensors, grad, tensors0>>

MaxBatches == 2
HalfModel == 1
MaxPos == 3

\* emsize, even
d_model == 2 * HalfModel

\* PositionalEncoding.__init__: column 2k holds sin(position * div_term[k]),
\* column 2k+1 holds cos(position * div_term[k])
PeTable(max_len) ==
    [pos \in 0..(max_len - 1) |->
        [c \in 0..(d_model - 1) |->
            IF c % 2 = 0 THEN <<"sin", pos, c \div 2>>
                         ELSE <<"cos", pos, (c - 1) \div 2>>]]

\* how PositionalEncoding keeps pe: self.register_buffer('pe', pe)
PeKindParameter == "parameter"
PeKind == "buffer"

\* the tensors of a TransformerModel and how each is registered
Kinds ==
    [n \in {"pos_encoder.pe", "transformer_encoder.layers", "encoder.weight",
            "decoder.weight", "decoder.bias"} |->
        IF n = "pos_encoder.pe" THEN PeKind ELSE "parameter"]

\* model.parameters()
Parameters == {n \in DOMAIN Kinds : Kinds[n] = "parameter"}

\* the values after __init__ and init_weights
InitialTensors ==
    [n \in DOMAIN Kinds |->
        [init |-> IF n = "pos_encoder.pe" THEN PeTable(MaxPos)
                  ELSE IF n = "decoder.bias" THEN <<"zeros">>
                  ELSE IF n = "transformer_encoder.layers" THEN <<"default">>
                  ELSE <<"uniform", -1, 1>>,
         delta |-> 0]]

\* the sign of a gradient
Grads == {-1, 0, 1}

\* the .grad of a parameter: None, or a tensor
NoGrad == [isNone |-> TRUE, v |-> 0]
GradOf(g) == [isNone |-> FALSE, v |-> g]

OptimIdle ==
    /\ o_pc = "idle"
    /\ n_batches = 0
    /\ batch = 0
    /\ tensors = InitialTensors
    /\ grad = [n \in Parameters |-> NoGrad]
    /\ tensors0 = InitialTensors

OptimInit ==
    /\ o_pc = "head"
    /\ n_batches \in 0..MaxBatches
    /\ batch = 0
    /\ tensors = InitialTensors
    /\ grad = [n \in Parameters |-> NoGrad]
    /\ tensors0 = InitialTensors

\* the for loop of train: get_batch_babi, optimizer.zero_grad()
ZeroGrad ==
    /\ o_pc = "head"
    /\ batch < n_batches
    /\ grad' = [n \in Parameters |-> IF grad[n].isNone THEN NoGrad ELSE GradOf(0)]
    /\ o_pc' = "forward"
    /\ UNCHANGED <<n_batches, batch, tensors, tensors0>>

\* output = model(data) and the loss: PositionalEncoding.forward adds
\* self.pe[:x.size(0), :] to its input and changes no tensor of the model
ForwardLoss ==
    /\ o_pc = "forward"
    /\ o_pc' = "backward"
    /\ UNCHANGED <<n_batches, batch, tensors, grad, tensors0>>

\* loss.backward(): every parameter gets a gradient
Backward ==
    /\ o_pc = "backward"
    /\ \E g \in [Parameters -> Grads] :
          grad' = [n \in Parameters |-> GradOf(g[n])]
    /\ o_pc' = "clip"
    /\ UNCHANGED <<n_batches, batch, tensors, tensors0>>

\* clip_grad_norm_(model.parameters(), 0.5): the gradients are scaled by one
\* positive factor
ClipGradNorm ==
    /\ o_pc = "clip"
    /\ grad' = [n \in Parameters |-> grad[n]]
    /\ o_pc' = "step"
    /\ UNCHANGED <<n_batches, batch, tensors, tensors0>>

\* optimizer.step(): p = p - lr * p.grad for every p of model.parameters()
\* that has a gradient
OptimizerStep ==
    /\ o_pc = "step"
    /\ tensors' = [n \in DOMAIN tensors |->
                      IF n \in Parameters /\ ~grad[n].isNone
                        THEN [tensors[n] EXCEPT !.delta = @ - grad[n].v]
                        ELSE tensors[n]]
    /\ batch' = batch + 1
    /\ o_pc' = "head"
    /\ UNCHANGED <<n_batches, grad, tensors0>>

\* the loop of train ends
TrainEnd ==
    /\ o_pc = "head"
    /\ batch >= n_batches
    /\ o_pc' = "done"
    /\ UNCHANGED <<n_batches, batch, tensors, grad, tensors0>>

(***************************************************************************)
(* Specifications: one per script or function group.                       *)
(***************************************************************************)
vars == <<trainVars, batchVars, evalVars, statsVars, maskVars, requestVars, optimVars>>

TrainIdle ==
    /\ pc = "idle"
    /\ epochs = 0
    /\ no_scheduler = FALSE
    /\ epoch = 0
    /\ objParams = [o \in {ModelRef} |-> 0]
    /\ best_model = "None"
    /\ best_val_loss = Inf
    /\ val_loss = Inf
    /\ last_epoch = 0
    /\ running = 0
    /\ calls = <<>>
    /\ hist = <<>>
    /\ snapshot = <<>>
    /\ evalParams = -1

\* the trainer script
notTrain == <<batchVars, evalVars, statsVars, maskVars, requestVars, optimVars>>
Init ==
    /\ TrainInit
    /\ BatchIdle
    /\ EvalIdle
    /\ StatsIdle
    /\ MaskIdle
    /\ RequestIdle
    /\ OptimIdle
Next ==
    \/ LoopHead /\ UNCHANGED notTrain
    \/ TrainCall /\ UNCHANGED notTrain
    \/ TrainReturn /\ UNCHANGED notTrain
    \/ EvalValCall /\ UNCHANGED notTrain
    \/ EvalValReturn /\ UNCHANGED notTrain
    \/ UpdateBest /\ UNCHANGED notTrain
    \/ EvalTestCall /\ UNCHANGED notTrain
    \/ EvalTestReturn /\ UNCHANGED notTrain
    \/ SchedulerStep /\ UNCHANGED notTrain
    \/ FinalEvalCall /\ UNCHANGED notTrain
    \/ FinalEvalReturn /\ UNCHANGED notTrain
Spec == Init /\ [][Next]_vars

\* the batching functions
notBatch == <<trainVars, evalVars, statsVars, maskVars, requestVars, optimVars>>
InitBatch ==
    /\ BatchInit
    /\ TrainIdle
    /\ EvalIdle
    /\ StatsIdle
    /\ MaskIdle
    /\ RequestIdle
    /\ OptimIdle
NextBatch ==
    \/ BatchifyBabi /\ UNCHANGED notBatch
    \/ Batchify /\ UNCHANGED notBatch
SpecBatch == InitBatch /\ [][NextBatch]_vars

\* one call of evaluate
notEval == <<trainVars, batchVars, statsVars, maskVars, requestVars, optimVars>>
InitEval ==
    /\ EvalInit
    /\ TrainIdle
    /\ BatchIdle
    /\ StatsIdle
    /\ MaskIdle
    /\ RequestIdle
    /\ OptimIdle
NextEval ==
    \/ EvalNextExample /\ UNCHANGED notEval
    \/ EvalLoopEnd /\ UNCHANGED notEval
    \/ GenToken /\ UNCHANGED notEval
    \/ GenExhausted /\ UNCHANGED notEval
    \/ GenIndexError /\ UNCHANGED notEval
    \/ EvalReturn /\ UNCHANGED notEval
SpecEval == InitEval /\ [][NextEval]_vars

\* the stats updater, run after run
notStats == <<trainVars, batchVars, evalVars, maskVars, requestVars, optimVars>>
InitStats ==
    /\ StatsInit
    /\ TrainIdle
    /\ BatchIdle
    /\ EvalIdle
    /\ MaskIdle
    /\ RequestIdle
    /\ OptimIdle
NextStats ==
    \/ StatsConstruct /\ UNCHANGED notStats
    \/ SetSkipNewScore /\ UNCHANGED notStats
    \/ ReadStats /\ UNCHANGED notStats
    \/ UpdateStats /\ UNCHANGED notStats
    \/ WriteStats /\ UNCHANGED notStats
    \/ PrintStats /\ UNCHANGED notStats
    \/ NextRun /\ UNCHANGED notStats
SpecStats == InitStats /\ [][NextStats]_vars

\* a sequence of forward calls on one model
notMask == <<trainVars, batchVars, evalVars, statsVars, requestVars, optimVars>>
InitMask ==
    /\ MaskInit
    /\ TrainIdle
    /\ BatchIdle
    /\ EvalIdle
    /\ StatsIdle
    /\ RequestIdle
    /\ OptimIdle
NextMask ==
    \/ Forward /\ UNCHANGED notMask
SpecMask == InitMask /\ [][NextMask]_vars

\* the construction of a Request
notRequest == <<trainVars, batchVars, evalVars, statsVars, maskVars, optimVars>>
InitRequest ==
    /\ RequestInit
    /\ TrainIdle
    /\ BatchIdle
    /\ EvalIdle
    /\ StatsIdle
    /\ MaskIdle
    /\ OptimIdle
NextRequest ==
    \/ RequestNew /\ UNCHANGED notRequest
    \/ MainEnter /\ UNCHANGED notRequest
    \/ ValidateFlags /\ UNCHANGED notRequest
    \/ ValidateFlagsCall /\ UNCHANGED notRequest
SpecRequest == InitRequest /\ [][NextRequest]_vars

\* one call of train, tensor by tensor
notOptim == <<trainVars, batchVars, evalVars, statsVars, maskVars, requestVars>>
InitOptim ==
    /\ OptimInit
    /\ TrainIdle
    /\ BatchIdle
    /\ EvalIdle
    /\ StatsIdle
    /\ MaskIdle
    /\ RequestIdle
NextOptim ==
    \/ ZeroGrad /\ UNCHANGED notOptim
    \/ ForwardLoss /\ UNCHANGED notOptim
    \/ Backward /\ UNCHANGED notOptim
    \/ ClipGradNorm /\ UNCHANGED notOptim
    \/ OptimizerStep /\ UNCHANGED notOptim
    \/ TrainEnd /\ UNCHANGED notOptim
SpecOptim == InitOptim /\ [][NextOptim]_vars

(***************************************************************************)
(* Claims about the trainer's script level.                                *)
(***************************************************************************)
RECURSIVE IsPrefix(_, _)
IsPrefix(s, t) ==
    IF s = <<>> THEN TRUE
    ELSE /\ Len(s) <= Len(t)
         /\ Head(s) = Head(t)
         /\ IsPrefix(Tail(s), Tail(t))

\* C1: the final test evaluation runs with the parameters the model had at the
\* end of an epoch whose validation loss is the lowest of all epochs.
C1_FinalEvalUsesBestEpochParams ==
    pc = "done" =>
        \E k \in 1..Len(hist) :
            /\ \A j \in 1..Len(hist) : hist[k] <= hist[j]
            /\ evalParams = snapshot[k]

\* the train() and evaluate() calls made so far, as <<function, dataset, epoch>>
TrainEvalCalls ==
    LET sel == SelectSeq(calls, LAMBDA c : c.f \in {"train", "evaluate"})
    IN  [n \in 1..Len(sel) |-> <<sel[n].f, sel[n].data, sel[n].epoch>>]

\* what a whole run calls: per epoch train, evaluate(val), evaluate(test), and
\* one more evaluate(test) after the last epoch
ExpectedCalls ==
    [n \in 1..(3 * epochs + 1) |->
        IF n = 3 * epochs + 1 THEN <<"evaluate", "test", epochs>>
        ELSE LET k == ((n - 1) \div 3) + 1
                 r == (n - 1) % 3
             IN  IF r = 0 THEN <<"train", "train", k>>
                 ELSE IF r = 1 THEN <<"evaluate", "val", k>>
                 ELSE <<"evaluate", "test", k>>]

CountCalls(f) == Len(SelectSeq(calls, LAMBDA c : c.f = f))

\* C6: one sequential control flow: the calls made so far are a prefix of
\* train, evaluate(val), evaluate(test) per epoch in increasing epoch order plus
\* one final evaluate(test); the best-loss update lies between the two
\* evaluations of an epoch; when the script has ended train() was called epochs
\* times and evaluate 2*epochs + 1 times; no two calls are in progress at once.
C6_SequentialControlFlow ==
    /\ running \in {0, 1}
    /\ IsPrefix(TrainEvalCalls, ExpectedCalls)
    /\ pc = "in_eval_test" =>
          /\ Len(hist) = epoch
          /\ best_val_loss <= val_loss
          /\ calls[Len(calls) - 1].data = "val"
    /\ pc \in {"done", "error"} =>
          /\ TrainEvalCalls = ExpectedCalls
          /\ CountCalls("train") = epochs
          /\ CountCalls("evaluate") = 2 * epochs + 1
          /\ running = 0

C6_Witness ==
    /\ pc = "done"
    /\ epochs >= 2
    /\ CountCalls("train") = epochs
    /\ CountCalls("evaluate") = 2 * epochs + 1

\* C7: scheduler.step() is called once per epoch, after that epoch's train()
\* and both evaluations, and never under --no_scheduler; the learning rate has
\* had k-1 decay steps when epoch k starts with the scheduler, 0 without it.
C7_SchedulerStepPerEpoch ==
    /\ \A n \in 1..Len(calls) :
          /\ calls[n].f = "train" =>
                calls[n].lr_steps = (IF no_scheduler THEN 0 ELSE calls[n].epoch - 1)
          /\ calls[n].f = "step" =>
                /\ ~no_scheduler
                /\ n > 3
                /\ calls[n - 3].f = "train" /\ calls[n - 3].epoch = calls[n].epoch
                /\ calls[n - 2].f = "evaluate" /\ calls[n - 2].data = "val"
                /\ calls[n - 1].f = "evaluate" /\ calls[n - 1].data = "test"
                /\ calls[n - 1].epoch = calls[n].epoch
    /\ pc = "loop" =>
          CountCalls("step") = (IF no_scheduler THEN 0 ELSE epoch)
    /\ pc \in {"done", "error"} =>
          CountCalls("step") = (IF no_scheduler THEN 0 ELSE epochs)
    /\ last_epoch = CountCalls("step")

C7_Witness ==
    /\ pc = "train"
    /\ epoch = 3
    /\ ~no_scheduler
    /\ last_epoch = 2

(***************************************************************************)
(* Claims about batching.                                                  *)
(***************************************************************************)
\* column c (from 1) of a tensor, top to bottom
ColumnOf(T, c) == [r \in 1..Len(T) |-> T[r][c]]

\* s followed by zeros, w numbers in all
ZeroPadded(s, w) == s \o [k \in 1..(w - Len(s)) |-> 0]

\* the vocabulary indices of '<sos>' + story + query + '<eos>' of an example as
\* it was passed in
SourceIds(z) ==
    LET toks == <<"<sos>">> \o z.story \o z.query \o <<"<eos>">>
    IN  [k \in 1..Len(toks) |-> Stoi(toks[k])]

TargetIds(z) ==
    LET toks == z.answer \o <<"<eos>">>
    IN  [k \in 1..Len(toks) |-> Stoi(toks[k])]

\* C2: batchify_babi with separate_ques=True returns two tensors of the same
\* shape (m rows, one column per example); column c of the source is the
\* numericalized '<sos>' + story + query + '<eos>' of example c followed by
\* zeros, whole; column c of the target is the numericalized answer + '<eos>'
\* followed by zeros; m is max(longest source sequence, size_src).
C2_BatchifyBabiColumns ==
    b_fn = "batchify_babi" /\ b_pc # "start" =>
        LET N == Len(data0)
            longest == MaxOf({Len(SourceIds(data0[j])) : j \in 1..N})
        IN  /\ b_pc = "done"
            /\ m = (IF longest > size_src THEN longest ELSE size_src)
            /\ Len(new_n_data) = m
            /\ Len(target_n_data) = m
            /\ \A r \in 1..m : /\ Len(new_n_data[r]) = N
                               /\ Len(target_n_data[r]) = N
            /\ \A c \in 1..N :
                  /\ Len(SourceIds(data0[c])) <= m
                  /\ ColumnOf(new_n_data, c) = ZeroPadded(SourceIds(data0[c]), m)
                  /\ ColumnOf(target_n_data, c) = ZeroPadded(TargetIds(data0[c]), m)

\* two examples of different lengths, one with a word the vocabulary lacks, and
\* a size_src between the two lengths
C2_Witness ==
    /\ b_fn = "batchify_babi"
    /\ b_pc = "done"
    /\ Len(data0) = 2
    /\ size_src = 7
    /\ m = 9
    /\ ColumnOf(new_n_data, 1) = <<2, 6, 4, 5, 3, 0, 0, 0, 0>>
    /\ ColumnOf(new_n_data, 2) = <<2, 6, 7, 4, 0, 4, 6, 5, 3>>
    /\ ColumnOf(target_n_data, 2) = <<7, 6, 3, 0, 0, 0, 0, 0, 0>>

C3_PerTokenAccuracy ==
    /\ 0 <= acc
    /\ acc <= acc_count
    /\ acc = matchTotal
    /\ ii <= 10
    /\ e_pc = "for_ii" => acc_count = genTotal + ii
    /\ e_pc \in {"for_i", "ret", "done"} => acc_count = genTotal
    /\ e_pc = "done" /\ show_accuracy =>
          /\ acc_tot = IF acc_count = 0
                         THEN [num |-> 0, den |-> 1]
                         ELSE [num |-> 100 * acc, den |-> acc_count]
          /\ 0 <= acc_tot.num
          /\ acc_tot.num <= 100 * acc_tot.den

\* nine examples evaluated, ten tokens generated for each, one in ten right
C3_Witness ==
    /\ e_pc = "done"
    /\ show_accuracy
    /\ src_rows = 10
    /\ acc_count = 90
    /\ acc = 9
    /\ acc_tot = [num |-> 900, den |-> 90]

\* C4: a call of evaluate passes every column of data_source to the model
\* exactly once, whatever the number of columns and the width are.
C4_EveryExampleFedOnce ==
    e_pc = "done" => \A c \in 0..(src_cols - 1) : fed[c] = 1

(***************************************************************************)
(* Claims about the stats updater.                                         *)
(***************************************************************************)
\* C5: after a run of read_stats, update_stats, write_stats that recorded score
\* s for test t in column c, the table the next run's read_stats reads holds s
\* at row t, column c.
C5_RecordedScoreReadByNextRun ==
    run >= 2 /\ s_pc = "update" /\ recorded # <<>> =>
        \E k \in 1..Len(heading) :
            /\ heading[k] = recorded.column
            /\ recorded.test <= Len(body)
            /\ k <= Len(body[recorded.test])
            /\ body[recorded.test][k] = recorded.score

\* C11: every key Stats() reads from the shared dictionary, save_dir and
\* stats_filename, is defined in settings.hparams, so that with the dictionary
\* as settings.py defines it the construction does not raise and sets
\* filename = save_dir + stats_filename + '.md'.
C11_StatsConstructsFromSettings ==
    hparams = Settings /\ s_pc \notin {"idle", "new"} =>
        /\ {"save_dir", "stats_filename"} \subseteq DOMAIN hparams
        /\ s_pc # "error"
        /\ filename = hparams["save_dir"] \o hparams["stats_filename"] \o ".md"

\* the heading read_stats read in this run (the file it reads is not written
\* during the run)
ReadHeading ==
    IF filename \in DOMAIN fs /\ Len(fs[filename]) >= 1
      THEN ParseLine(fs[filename][1], "blank")
      ELSE <<>>

\* C13: after update_stats with skip_new_score set, table_out has
\* num_of_tests + 1 = 21 rows; row 0 is the heading (with column_name added if
\* it was absent) with one ' ' cell prepended; every row j in 1..20 starts with
\* str(j) and has as many cells as row 0; a cell the body read has no value
\* for, other than the cell of the score, is '0'.
C13_TableOutShape ==
    skip_new_score /\ s_pc \in {"write", "print", "done"} =>
        /\ Len(table_out) = num_of_tests + 1
        /\ Len(table_out) = 21
        /\ table_out[1] =
              <<" ">> \o (IF column_name \in Range(ReadHeading)
                            THEN ReadHeading
                            ELSE Append(ReadHeading, column_name))
        /\ \A j \in 1..num_of_tests :
              LET row == table_out[j + 1]
              IN  /\ Len(row) = Len(table_out[1])
                  /\ row[1] = ToString(j)
                  /\ \A k \in 2..Len(row) :
                        (j > Len(body) \/ k - 1 > Len(body[j]))
                        /\ ~(j = test /\ table_out[1][k] = column_name)
                        => row[k] = "0"

\* the table built from a file with a short row, an empty cell and three body
\* rows only
C13_Witness ==
    /\ skip_new_score
    /\ s_pc = "write"
    /\ Len(body) = 3
    /\ body[2] = <<"0", "7">>
    /\ body[3] = <<>>
    /\ table_out[1] = <<" ", "babi">>
    /\ table_out[2] = <<"1", "40">>
    /\ table_out[4] = <<"3", "0">>
    /\ table_out[6] = <<"5", "555">>
    /\ table_out[21] = <<"20", "0">>

(***************************************************************************)
(* Claims about the attention mask.                                        *)
(***************************************************************************)
\* C8: the mask every forward(src) passes to the encoder is the causal mask of
\* size len(src), entry (i, j) being 0.0 for j <= i and -inf for j > i; the
\* cached mask is regenerated exactly when it is None or of another size.
C8_CausalMaskEveryForward ==
    lens # <<>> =>
        LET n == lens[Len(lens)]
        IN  /\ ~mask_passed.isNone
            /\ mask_passed.rows =
                  [r \in 1..n |-> [c \in 1..n |-> IF c <= r THEN "0.0" ELSE "-inf"]]
            /\ src_mask = mask_passed
            /\ regenerated = (prev_mask.isNone \/ Len(prev_mask.rows) # n)
            /\ ~regenerated => src_mask = prev_mask

\* a forward of length 2 after one of length 3, and then one more of length 2
\* that reuses the mask
C8_Witness ==
    /\ Len(lens) = 3
    /\ lens = <<3, 2, 2>>
    /\ ~regenerated
    /\ mask_passed.rows = << <<"0.0", "-inf">>, <<"0.0", "0.0">> >>

(***************************************************************************)
(* Claims about what training changes.                                     *)
(***************************************************************************)
\* C12 as stated: the positional-encoding table is learned, that is, a call of
\* train() whose optimizer steps changed every parameter of the model has
\* changed the table too.
C12_PositionalEncodingLearned ==
    /\ o_pc = "done"
    /\ batch >= 1
    /\ \A n \in Parameters : tensors[n] # tensors0[n]
    => tensors["pos_encoder.pe"] # tensors0["pos_encoder.pe"]

\* C12 as the code has it: the positional-encoding table is the sine / cosine
\* table made at construction; it is not one of model.parameters() and every
\* step of train() leaves it unchanged.
C12_PositionalEncodingFixed ==
    o_pc # "idle" =>
        /\ "pos_encoder.pe" \notin Parameters
        /\ tensors["pos_encoder.pe"] = tensors0["pos_encoder.pe"]
        /\ tensors["pos_encoder.pe"].delta = 0
        /\ \A pos \in 0..(MaxPos - 1), k \in 0..(HalfModel - 1) :
              /\ tensors["pos_encoder.pe"].init[pos][2 * k] = <<"sin", pos, k>>
              /\ tensors["pos_encoder.pe"].init[pos][2 * k + 1] = <<"cos", pos, k>>

\* train() has made two optimizer steps, every parameter has moved and the
\* table has not
C12_Witness ==
    /\ o_pc = "done"
    /\ batch = 2
    /\ \A n \in Parameters : tensors[n].delta # 0
    /\ Parameters = DOMAIN tensors \ {"pos_encoder.pe"}
    /\ tensors["pos_encoder.pe"] = tensors0["pos_encoder.pe"]

(***************************************************************************)
(* Claims about the query client.                                          *)
(***************************************************************************)
\* C10: validate_flags passes exactly when, with cloud_mlengine_model_name
\* set, server and servable_name are both unset, and, with it unset, server
\* and servable_name are both set; every other combination fails an assertion.
C10_ValidateFlagsByCloudName ==
    validate_result # "none" =>
        (validate_result = "ok") =
            (IF Truthy(FLAGS.cloud_mlengine_model_name)
               THEN ~Truthy(FLAGS.server) /\ ~Truthy(FLAGS.servable_name)
               ELSE Truthy(FLAGS.server) /\ Truthy(FLAGS.servable_name))

\* C14: constructing Request(argv) with server and servable_name set returns
\* normally: main has run once (its result is cached), no exception left the
\* constructor, and self.problem and self.request_fn are both set.
C14_RequestConstructs ==
    /\ Truthy(FLAGS.server)
    /\ Truthy(FLAGS.servable_name)
    /\ r_pc \notin {"idle", "new", "init", "main", "validated"}
    => /\ exc = "none"
       /\ "_cache_main" \in cached
       /\ problem # None
       /\ request_fn # None

====
